---- MODULE Spec2Model ----
(***************************************************************************)
(* Model of the exam-paper ingestion pipeline: the windowed reconciler     *)
(* (parseQuestionsWithGemini / processBatch) and the region cropper        *)
(* (cropImageFromBase64).                                                  *)
(*                                                                         *)
(* Lengths are exact rationals kept as integers in thousandths of a pixel: *)
(* (n / 1000) * dim is the integer n * dim in that unit, and dim * 0.01 is *)
(* the integer dim * 1000 / 100.                                           *)
(***************************************************************************)
EXTENDS Integers, Sequences, FiniteSets, TLC

\* ---------------------------------------------------------------- bounds
MaxPages == 4
MaxReply == 2
MaxW == 4
MaxH == 3
RasterW == 120
RasterH == 160

\* ------------------------------------------------------ program constants
WINDOW_SIZE == 2
FingerprintLen == 50
BoxScale == 1000
PadDivisor == 100
BoxArity == 4

\* ================================================================ cropper
Max(a, b) == IF a >= b THEN a ELSE b

Min(a, b) == IF a <= b THEN a ELSE b

NullImage == [null |-> TRUE]

NullBox == [null |-> TRUE, arr |-> << >>]

Box(a) == [null |-> FALSE, arr |-> a]

\* !box || !Array.isArray(box) || box.length !== 4
BoxFormatOk(box) == ~box.null /\ Len(box.arr) = BoxArity

\* variant: > where the code has >=
CoordsInvalidStrict(a) == a[1] > a[3] \/ a[2] > a[4]

\* ymin >= ymax || xmin >= xmax, on box = [ymin, xmin, ymax, xmax]
CoordsInvalid(a) == a[1] >= a[3] \/ a[2] >= a[4]

\* (n / 1000) * dim, in thousandths of a pixel
ToPixels(n, dim) == n * dim

\* dim * 0.01, in thousandths of a pixel
Pad(dim) == (dim * BoxScale) \div PadDivisor

\* Math.max(0, p1 - pad)
FinalStart(p1, pad) == Max(0, p1 - pad)

\* Math.min(dim - finalStart, cropSize + pad * 2)
FinalSize(dim, start, cropSize, pad) ==
    Min((dim * BoxScale) - start, cropSize + (pad * 2))

\* canvas.width = finalW: the attribute is an unsigned long, the fraction is dropped
CanvasDim(v) == v \div BoxScale

\* body of img.onload for a box that passed the coordinate validation
CropGeometry(img, a) ==
    LET h == img.h
        w == img.w
        y1 == ToPixels(a[1], h)
        x1 == ToPixels(a[2], w)
        y2 == ToPixels(a[3], h)
        x2 == ToPixels(a[4], w)
        cropWidth == x2 - x1
        cropHeight == y2 - y1
        padX == Pad(w)
        padY == Pad(h)
        finalX == FinalStart(x1, padX)
        finalY == FinalStart(y1, padY)
        finalW == FinalSize(w, finalX, cropWidth, padX)
        finalH == FinalSize(h, finalY, cropHeight, padY)
    IN  [null |-> FALSE, src |-> img.page,
         sx |-> finalX, sy |-> finalY, sw |-> finalW, sh |-> finalH,
         cw |-> CanvasDim(finalW), ch |-> CanvasDim(finalH)]

\* img.onload: validate the coordinates, size the canvas, get its 2d context, draw
OnLoad(img, a) ==
    IF CoordsInvalid(a) THEN NullImage
    ELSE IF ~img.ctx THEN NullImage
    ELSE CropGeometry(img, a)

\* the value the promise of cropImageFromBase64 resolves to
cropImageFromBase64(img, box) ==
    IF ~BoxFormatOk(box) THEN NullImage
    ELSE IF ~img.decodes THEN NullImage
    ELSE OnLoad(img, box.arr)

\* ============================================================= reconciler
VARIABLES apiKey, input, pc, i, parts, pending, allQuestions, result,
          inFlight, submitted, failed, firstSeen, acceptedFrom, droppedFrom

recVars == <<apiKey, input, pc, i, parts, pending, allQuestions, result,
             inFlight, submitted, failed, firstSeen, acceptedFrom, droppedFrom>>

SourceName == "paper.pdf"

Ones(n) == [k \in 1..n |-> 1]

\* stems: two that agree on the first 50 characters and differ after them, one
\* that differs from them at character 50, one of 49 characters
TextWhole == Ones(FingerprintLen) \o <<1>>

TextRetold == Ones(FingerprintLen) \o <<2>>

TextFragment == Ones(FingerprintLen - 1) \o <<2, 1>>

TextShort == Ones(FingerprintLen - 1)

BoxInner == Box(<<100, 100, 500, 500>>)

BoxFull == Box(<<0, 0, 1000, 1000>>)

BoxInverted == Box(<<500, 100, 100, 500>>)

BoxShortArray == Box(<<1, 2, 3>>)

Opt(d, b) == [hasDiagram |-> d, boundingBox |-> b]

\* records of the oracle's response; "about" names the question of the paper a
\* record was extracted from (carried along by the spread, never read by the code);
\* board and standard come with some records and are missing from others
CandWhole ==
    [text |-> TextWhole, about |-> 1, hasDiagram |-> TRUE, boundingBox |-> BoxInner,
     options |-> <<Opt(TRUE, BoxFull), Opt(FALSE, BoxInner)>>,
     board |-> "NEET", standard |-> "12th"]

\* this one carries values of its own for the fields the client sets
CandRetold ==
    [text |-> TextRetold, about |-> 1, hasDiagram |-> TRUE, boundingBox |-> NullBox,
     options |-> << >>, isSelected |-> FALSE, isValid |-> FALSE, source |-> "oracle"]

CandFragment ==
    [text |-> TextFragment, about |-> 1, hasDiagram |-> TRUE, boundingBox |-> BoxInverted,
     options |-> <<Opt(TRUE, NullBox), Opt(TRUE, BoxInner)>>, board |-> "NEET"]

CandShort ==
    [text |-> TextShort, about |-> 2, hasDiagram |-> FALSE, boundingBox |-> BoxInner,
     options |-> <<Opt(TRUE, BoxShortArray)>>, standard |-> "11th"]

Cands == {CandWhole, CandRetold, CandFragment, CandShort}

Replies == UNION {[1..k -> Cands] : k \in 0..MaxReply}

\* response.response.text(): empty, not JSON, JSON without "questions", JSON with
Responses ==
    {[kind |-> "empty", questions |-> << >>],
     [kind |-> "garbage", questions |-> << >>],
     [kind |-> "nofield", questions |-> << >>]}
    \cup {[kind |-> "json", questions |-> r] : r \in Replies}

PageImage(k) ==
    [isImage |-> TRUE, page |-> k, w |-> RasterW, h |-> RasterH, decodes |-> TRUE, ctx |-> TRUE]

TextPart ==
    [isImage |-> FALSE, page |-> 0, w |-> 0, h |-> 0, decodes |-> FALSE, ctx |-> FALSE]

PageArray(n) == [k \in 1..n |-> PageImage(k)]

\* Array.prototype.slice(from, to) and String.prototype.substring(from, to), 0-based
Slice(s, from, to) == SubSeq(s, from + 1, Min(to, Len(s)))

\* input.slice(i, i + WINDOW_SIZE)
Chunk(pages, k) == Slice(pages, k, k + WINDOW_SIZE)

\* variant: > where the code has >=
BreakAfterLate(k, n) == k + WINDOW_SIZE > n

\* if (i + WINDOW_SIZE >= input.length) break
BreakAfter(k, n) == k + WINDOW_SIZE >= n

\* parts.some(p => typeof p !== 'string' && 'inlineData' in p)
IsMultimodal(ps) == \E k \in 1..Len(ps) : ps[k].isImage

\* variant: the last part where the code takes the first
CurrentImageLast(ps) == ps[Len(ps)]

\* parts[0].inlineData.data
CurrentImage(ps) == ps[1]

\* hasDiagram && boundingBox && isMultimodal && currentImageBase64 ? crop : null
\* (a page part always carries the non-empty data of its raster)
CropIfFlagged(x, ps) ==
    IF x.hasDiagram /\ ~x.boundingBox.null /\ IsMultimodal(ps)
    THEN cropImageFromBase64(CurrentImage(ps), x.boundingBox)
    ELSE NullImage

ProcessOption(opt, ps) ==
    [hasDiagram |-> opt.hasDiagram, boundingBox |-> opt.boundingBox,
     image |-> CropIfFlagged(opt, ps)]

\* variant: the spread written after the keys, so that the record's values stay
SpreadLast(q, over) ==
    [f \in DOMAIN q \cup DOMAIN over |-> IF f \in DOMAIN q THEN q[f] ELSE over[f]]

\* { ...q, key: value, ... }: the keys written after the spread replace the record's
Spread(q, over) ==
    [f \in DOMAIN q \cup DOMAIN over |-> IF f \in DOMAIN over THEN over[f] ELSE q[f]]

\* q.field || fallback, for a field that is a non-empty string when the record has it
OrDefault(q, field, fallback) == IF field \in DOMAIN q THEN q[field] ELSE fallback

\* processed.push({...q, options, source, isActive, isSelected, isValid, image, hasImage,
\* board: q.board || "JEE", standard: q.standard || "11th"})
ProcessQuestion(q, ps, src) ==
    LET mainImage == CropIfFlagged(q, ps)
    IN  Spread(q,
               [options |-> [k \in 1..Len(q.options) |-> ProcessOption(q.options[k], ps)],
                source |-> src, isActive |-> TRUE, isSelected |-> TRUE, isValid |-> TRUE,
                image |-> mainImage, hasImage |-> ~mainImage.null,
                board |-> OrDefault(q, "board", "JEE"),
                standard |-> OrDefault(q, "standard", "11th")])

\* the text-only client: ({...q, source, isActive, isSelected, isValid, image: null,
\* hasImage: false, board: q.board || "JEE", standard: q.standard || "12th",
\* options: q.options || []})
TextOnlyQuestion(q, src) ==
    Spread(q,
           [source |-> src, isActive |-> TRUE, isSelected |-> TRUE, isValid |-> TRUE,
            image |-> NullImage, hasImage |-> FALSE,
            board |-> OrDefault(q, "board", "JEE"),
            standard |-> OrDefault(q, "standard", "12th"),
            options |-> q.options])

\* JSON.parse(responseText || '{"questions":[]}') throws; the text-only client
\* parses the text as it is, and the empty text is not JSON either
ParseThrows(resp, textOnly) ==
    resp.kind = "garbage" \/ (textOnly /\ resp.kind = "empty")

\* parsed.questions || []
ParsedQuestions(resp) == IF resp.kind = "json" THEN resp.questions ELSE << >>

\* the array processBatch returns
ProcessBatch(ps, resp, src) ==
    LET qs == ParsedQuestions(resp)
    IN  [k \in 1..Len(qs) |-> ProcessQuestion(qs[k], ps, src)]

\* the array the text-only client returns
TextOnlyBatch(resp, src) ==
    LET qs == ParsedQuestions(resp)
    IN  [k \in 1..Len(qs) |-> TextOnlyQuestion(qs[k], src)]

\* variant: one character fewer
FingerprintShort(t) == Slice(t, 0, FingerprintLen - 1)

\* text.substring(0, 50)
Fingerprint(t) == Slice(t, 0, FingerprintLen)

\* variant: the whole stems compared
FindDuplicateExact(all, q) == \E k \in 1..Len(all) : all[k].text = q.text

\* allQuestions.find(prev => prev.text.substring(0, 50) === q.text.substring(0, 50))
FindDuplicate(all, q) ==
    \E k \in 1..Len(all) : Fingerprint(all[k].text) = Fingerprint(q.text)

\* variant: unshift where the code has push
AcceptFront(all, q) == <<q>> \o all

\* allQuestions.push(q)
Accept(all, q) == Append(all, q)

\* for (const q of windowQuestions) { if (!find) push }
RECURSIVE MergeWindow(_, _)
MergeWindow(all, qs) ==
    IF qs = << >> THEN all
    ELSE MergeWindow(IF FindDuplicate(all, Head(qs)) THEN all ELSE Accept(all, Head(qs)),
                     Tail(qs))

\* variant: the call not awaited
MayStartWindowEager(p) == p \in {"loop", "await", "merge"}

\* the loop reaches processBatch only from the loop head: each call is awaited
MayStartWindow(p) == p = "loop"

\* ------------------------------------------------------ cropper, as a process
VARIABLES cimg, cbox, cpc, cresult

cropVars == <<cimg, cbox, cpc, cresult>>

\* ------------------------------------------- crop selector (ImageCropModal)
VARIABLES pdfPages, currentPage, isSelecting, startPos, endPos, canvas, draws,
          crops, completed, mounted, last

selVars == <<pdfPages, currentPage, isSelecting, startPos, endPos, canvas, draws,
             crops, completed, mounted, last>>

\* ------------------------------------------- review and export (App, exportService)
VARIABLES questions, currentStep, isProcessing, error, epc, selectedQuestions,
          uploads, uploadCount, progress, posted, mongo, archive, attempts,
          startList, touched

appVars == <<questions, currentStep, isProcessing, error, epc, selectedQuestions,
             uploads, uploadCount, progress, posted, mongo, archive, attempts,
             startList, touched>>

\* ------------------------------- the steps before the review, and the crop dialog
VARIABLES sourceFile, sourceName, rawText, isExtracting, reads, files, aiCalls,
          showCropModal, cropCallback, decodes, requests, cancelled

uiVars == <<sourceFile, sourceName, rawText, isExtracting, reads, files, aiCalls,
            showCropModal, cropCallback, decodes, requests, cancelled>>

\* ------------------------------------------------ log listeners (logService)
VARIABLES listeners, registered, dispatch, logs, unsubscribed

logVars == <<listeners, registered, dispatch, logs, unsubscribed>>

vars == <<recVars, cropVars, selVars, appVars, uiVars, logVars>>

notRec == <<cropVars, selVars, appVars, uiVars, logVars>>

notCrop == <<recVars, selVars, appVars, uiVars, logVars>>

notSel == <<recVars, cropVars, appVars, uiVars, logVars>>

notApp == <<recVars, cropVars, selVars, uiVars, logVars>>

\* what the handlers of the application leave alone
notUi == <<recVars, cropVars, selVars, logVars>>

notLog == <<recVars, cropVars, selVars, appVars, uiVars>>

NoResult == [state |-> "pending", value |-> << >>]

Resolved(v) == [state |-> "resolved", value |-> v]

Rejected == [state |-> "rejected", value |-> << >>]

IdleRaster == [isImage |-> TRUE, page |-> 1, w |-> 1, h |-> 1, decodes |-> TRUE, ctx |-> TRUE]

CropIdle ==
    /\ cimg = IdleRaster
    /\ cbox = NullBox
    /\ cpc = "idle"
    /\ cresult = NullImage

\* useState({ x: 0, y: 0 })
Origin == [x |-> 0, y |-> 0]

\* no pointer event yet
NoEvent == [clientX |-> 0, clientY |-> 0,
            rect |-> [left |-> 0, top |-> 0, width |-> 1, height |-> 1]]

\* the handler that ran last, the pointer event it was given, whether it alerted,
\* and whether a drag was under way when it was called
Ran(h, e, a) == [handler |-> h, event |-> e, alert |-> a, selecting |-> isSelecting]

SelIdle ==
    /\ pdfPages = << >>
    /\ currentPage = 0
    /\ isSelecting = FALSE
    /\ startPos = Origin
    /\ endPos = Origin
    /\ canvas = [width |-> 1, height |-> 1]
    /\ draws = {}
    /\ crops = {}
    /\ completed = << >>
    /\ mounted = FALSE
    /\ last = Ran("none", NoEvent, FALSE)

\* no request made to the ingestion server
NotPosted == [made |-> FALSE, body |-> << >>]

\* no archive built
NoArchive == [built |-> FALSE, questions |-> << >>, firebase |-> << >>,
              downloaded |-> FALSE]

\* the application as it is first rendered
AppIdle ==
    /\ questions = << >>
    /\ currentStep = "UPLOAD"
    /\ isProcessing = FALSE
    /\ error = "null"
    /\ epc = "idle"
    /\ selectedQuestions = << >>
    /\ uploads = << >>
    /\ uploadCount = 0
    /\ progress = << >>
    /\ posted = NotPosted
    /\ mongo = "none"
    /\ archive = NoArchive
    /\ attempts = 0
    /\ startList = << >>
    /\ touched = 0

\* useState<...>(null): no continuation stored
NoCallback == [set |-> FALSE]

\* the application as it is first rendered: no file, no dialog, nothing pending
UiIdle ==
    /\ sourceFile = "null"
    /\ sourceName = "Manual Input"
    /\ rawText = ""
    /\ isExtracting = FALSE
    /\ reads = {}
    /\ files = 0
    /\ aiCalls = 0
    /\ showCropModal = FALSE
    /\ cropCallback = NoCallback
    /\ decodes = {}
    /\ requests = 0
    /\ cancelled = {}

\* const listeners: LogListener[] = [], and no call of log under way
LogIdle ==
    /\ listeners = << >>
    /\ registered = 0
    /\ dispatch = [active |-> FALSE, idx |-> 0, len |-> 0, atStart |-> << >>,
                   called |-> << >>]
    /\ logs = 0
    /\ unsubscribed = {}

\* ------------------------------------------------- history kept for the claims
\* the two stems agree on each of their first 50 characters
SameFirst50(a, b) ==
    \A k \in 1..FingerprintLen :
        \/ k <= Len(a) /\ k <= Len(b) /\ a[k] = b[k]
        \/ k > Len(a) /\ k > Len(b)

\* seen, extended by the records of qs that repeat the first 50 characters of none before
RECURSIVE FirstOccurrences(_, _)
FirstOccurrences(seen, qs) ==
    IF qs = << >> THEN seen
    ELSE IF \E k \in 1..Len(seen) : SameFirst50(seen[k].text, Head(qs).text)
         THEN FirstOccurrences(seen, Tail(qs))
         ELSE FirstOccurrences(Append(seen, Head(qs)), Tail(qs))

PageNumbers(ps) == [k \in 1..Len(ps) |-> ps[k].page]

\* ----------------------------------------------------------------- actions
RecInit ==
    /\ apiKey \in BOOLEAN
    /\ input \in {[isString |-> TRUE, textOnly |-> t, pages |-> << >>] : t \in BOOLEAN}
                 \cup {[isString |-> FALSE, textOnly |-> FALSE, pages |-> PageArray(n)] :
                          n \in 0..MaxPages}
    /\ pc = "start"
    /\ i = 0
    /\ parts = << >>
    /\ pending = << >>
    /\ allQuestions = << >>
    /\ result = NoResult
    /\ inFlight = 0
    /\ submitted = << >>
    /\ failed = {}
    /\ firstSeen = << >>
    /\ acceptedFrom = << >>
    /\ droppedFrom = {}

Init == RecInit /\ CropIdle /\ SelIdle /\ AppIdle /\ UiIdle /\ LogIdle

\* variant: the credential is looked at for the page arrays only
CredentialMissingForPages(key, inp) == ~key /\ ~inp.isString

\* if (!import.meta.env.VITE_GEMINI_API_KEY) throw new Error("Gemini API Key is missing.")
\* the first statement of the page client and of the text-only client
CredentialMissing(key, inp) == ~key

\* the call, up to the first await: the credential check and the dispatch on the input
Invoke ==
    /\ pc = "start"
    /\ IF CredentialMissing(apiKey, input)
       THEN /\ pc' = "rejected"
            /\ result' = Rejected
            /\ UNCHANGED <<parts, inFlight, submitted>>
       ELSE IF input.isString
       THEN /\ pc' = "await"
            /\ parts' = <<TextPart>>
            /\ inFlight' = inFlight + 1
            /\ submitted' = Append(submitted, << >>)
            /\ UNCHANGED result
       ELSE /\ pc' = "loop"
            /\ UNCHANGED <<parts, inFlight, submitted, result>>
    /\ UNCHANGED <<apiKey, input, i, pending, allQuestions, failed, firstSeen, acceptedFrom,
                   droppedFrom>>
    /\ UNCHANGED notRec

\* loop head: i < input.length, a non-empty chunk, and processBatch up to generateContent
StartWindow ==
    /\ MayStartWindow(pc)
    /\ i < Len(input.pages)
    /\ Len(Chunk(input.pages, i)) # 0
    /\ parts' = Chunk(input.pages, i)
    /\ submitted' = Append(submitted, PageNumbers(Chunk(input.pages, i)))
    /\ inFlight' = inFlight + 1
    /\ pc' = "await"
    /\ UNCHANGED <<apiKey, input, i, pending, allQuestions, result, failed, firstSeen,
                   acceptedFrom, droppedFrom>>
    /\ UNCHANGED notRec

\* loop head with no page left: return allQuestions
LoopExit ==
    /\ pc = "loop"
    /\ ~(i < Len(input.pages)) \/ Len(Chunk(input.pages, i)) = 0
    /\ pc' = "done"
    /\ result' = Resolved(allQuestions)
    /\ UNCHANGED <<apiKey, input, i, parts, pending, allQuestions, inFlight, submitted,
                   failed, firstSeen, acceptedFrom, droppedFrom>>
    /\ UNCHANGED notRec

\* after a window, merged or caught: break and return, or i += 1
AfterWindow(all) ==
    IF BreakAfter(i, Len(input.pages))
    THEN /\ pc' = "done"
         /\ result' = Resolved(all)
         /\ UNCHANGED i
    ELSE /\ pc' = "loop"
         /\ i' = i + 1
         /\ UNCHANGED result

\* variant: no try around the call
WindowErrorCaughtNever(inp) == FALSE

\* try { await processBatch(chunk, ...) } catch { log }: only the page windows are
\* inside a try; processBatch([{ text: input }]) is returned as it is
WindowErrorCaught(inp) == ~inp.isString

\* processBatch throws (the request failed, or the response text is not JSON): the
\* window's catch logs it and the loop goes on; for string input the call rejects
WindowFails ==
    /\ inFlight' = inFlight - 1
    /\ IF WindowErrorCaught(input)
       THEN /\ failed' = failed \cup {i + 1}
            /\ AfterWindow(allQuestions)
       ELSE /\ pc' = "rejected"
            /\ result' = Rejected
            /\ UNCHANGED <<i, failed>>
    /\ UNCHANGED <<apiKey, input, parts, pending, allQuestions, submitted, firstSeen,
                   acceptedFrom, droppedFrom>>
    /\ UNCHANGED notRec

GenerateContentRejects ==
    /\ pc = "await"
    /\ WindowFails

GenerateContentResolves ==
    /\ pc = "await"
    /\ \E resp \in Responses :
        IF ParseThrows(resp, input.textOnly)
        THEN WindowFails
        ELSE /\ inFlight' = inFlight - 1
             /\ IF input.isString
                THEN /\ pc' = "done"
                     /\ result' = Resolved(IF input.textOnly
                                           THEN TextOnlyBatch(resp, SourceName)
                                           ELSE ProcessBatch(parts, resp, SourceName))
                     /\ UNCHANGED pending
                ELSE /\ pc' = "merge"
                     /\ pending' = ProcessBatch(parts, resp, SourceName)
                     /\ UNCHANGED result
             /\ UNCHANGED <<apiKey, input, i, parts, allQuestions, submitted, failed,
                            firstSeen, acceptedFrom, droppedFrom>>
             /\ UNCHANGED notRec

\* the window's questions are de-duplicated into allQuestions, then the loop goes on
MergeResults ==
    /\ pc = "merge"
    /\ allQuestions' = MergeWindow(allQuestions, pending)
    /\ pending' = << >>
    /\ firstSeen' = FirstOccurrences(firstSeen, pending)
    /\ acceptedFrom' = acceptedFrom \o
           [k \in 1..(Len(allQuestions') - Len(allQuestions)) |-> i + 1]
    /\ droppedFrom' = IF Len(allQuestions') - Len(allQuestions) < Len(pending)
                      THEN droppedFrom \cup {i + 1}
                      ELSE droppedFrom
    /\ AfterWindow(allQuestions')
    /\ UNCHANGED <<apiKey, input, parts, inFlight, submitted, failed>>
    /\ UNCHANGED notRec

Next ==
    \/ Invoke
    \/ StartWindow
    \/ LoopExit
    \/ GenerateContentRejects
    \/ GenerateContentResolves
    \/ MergeResults

Spec == Init /\ [][Next]_vars

\* ============================================== the cropper run on its own
\* coordinates on the 0-1000 scale: the ends, one inside the 1% margin, two inside
Coords == {0, 5, 300, 550, 1000}

CropBoxes ==
    {NullBox, BoxShortArray, Box(<<0, 0, 300, 300, 550>>)}
    \cup {Box(<<a, b, c, d>>) : a \in Coords, b \in Coords, c \in Coords, d \in Coords}

Rasters ==
    {[isImage |-> TRUE, page |-> 1, w |-> w, h |-> h, decodes |-> d, ctx |-> c] :
        w \in (1..MaxW) \cup {RasterW}, h \in (1..MaxH) \cup {RasterH},
        d \in BOOLEAN, c \in BOOLEAN}

RecIdle ==
    /\ apiKey = TRUE
    /\ input = [isString |-> TRUE, textOnly |-> FALSE, pages |-> << >>]
    /\ pc = "idle"
    /\ i = 0
    /\ parts = << >>
    /\ pending = << >>
    /\ allQuestions = << >>
    /\ result = NoResult
    /\ inFlight = 0
    /\ submitted = << >>
    /\ failed = {}
    /\ firstSeen = << >>
    /\ acceptedFrom = << >>
    /\ droppedFrom = {}

CropInit ==
    /\ cimg \in Rasters
    /\ cbox \in CropBoxes
    /\ cpc = "called"
    /\ cresult = NullImage
    /\ RecIdle
    /\ SelIdle
    /\ AppIdle
    /\ UiIdle
    /\ LogIdle

\* if (!box || !Array.isArray(box) || box.length !== 4) return null
CropReturnsNull ==
    /\ cpc = "called"
    /\ ~BoxFormatOk(cbox)
    /\ cpc' = "resolved"
    /\ cresult' = NullImage
    /\ UNCHANGED <<cimg, cbox>>
    /\ UNCHANGED notCrop

\* new Promise: img.src is set and the handlers are installed
CropLoads ==
    /\ cpc = "called"
    /\ BoxFormatOk(cbox)
    /\ cpc' = "loading"
    /\ UNCHANGED <<cimg, cbox, cresult>>
    /\ UNCHANGED notCrop

ImgOnload ==
    /\ cpc = "loading"
    /\ cimg.decodes
    /\ cpc' = "resolved"
    /\ cresult' = OnLoad(cimg, cbox.arr)
    /\ UNCHANGED <<cimg, cbox>>
    /\ UNCHANGED notCrop

ImgOnerror ==
    /\ cpc = "loading"
    /\ ~cimg.decodes
    /\ cpc' = "resolved"
    /\ cresult' = NullImage
    /\ UNCHANGED <<cimg, cbox>>
    /\ UNCHANGED notCrop

CropNext ==
    \/ CropReturnsNull
    \/ CropLoads
    \/ ImgOnload
    \/ ImgOnerror

SpecCrop == CropInit /\ [][CropNext]_vars

\* ======================================== the crop selector run on its own
\* pages of the document shown in the dialog
MaxSelPages == 2

\* crops confirmed in one opening of the dialog
MaxCrops == 1

\* if (width < 10 || height < 10)
MinSelection == 10

\* pointer positions are fractions of a pixel (canvas.width / rect.width): they are
\* kept as integers in thousandths of a pixel
Unit == 1000

Abs(a) == IF a < 0 THEN 0 - a ELSE a

\* page.getViewport({ scale: 2 }): the raster of page k, landscape and portrait in turn
NativeSize(k) ==
    IF k % 2 = 1 THEN [width |-> 80, height |-> 40] ELSE [width |-> 40, height |-> 80]

\* canvas.getBoundingClientRect(): where the canvas is shown and how large
Rects ==
    {[left |-> 7, top |-> 3, width |-> 20, height |-> 10],
     [left |-> 0, top |-> 0, width |-> 40, height |-> 40]}

\* the pointer, in display pixels from the corner of the canvas: the corner itself,
\* a short way in, the far edge
OffsetsX == {0, 5, 19}

OffsetsY == {0, 5}

PointerEvents ==
    {[clientX |-> r.left + ox, clientY |-> r.top + oy, rect |-> r] :
        r \in Rects, ox \in OffsetsX, oy \in OffsetsY}

\* bound on the interleavings: the load started by an accepted confirm ends before
\* the pointer is used again (the page select and the buttons stay in play)
PointerFree == crops = {}

\* canvas.width / rect.width
ScaleOf(native, displayed) == (native * Unit) \div displayed

\* variant: the horizontal factor used on both axes
GetMousePosUniform(e, c) ==
    [x |-> (e.clientX - e.rect.left) * ScaleOf(c.width, e.rect.width),
     y |-> (e.clientY - e.rect.top) * ScaleOf(c.width, e.rect.width)]

\* getMousePos: (e.clientX - rect.left) * scaleX, (e.clientY - rect.top) * scaleY
GetMousePos(e, c) ==
    [x |-> (e.clientX - e.rect.left) * ScaleOf(c.width, e.rect.width),
     y |-> (e.clientY - e.rect.top) * ScaleOf(c.height, e.rect.height)]

\* x, y, width, height of handleCropConfirm
Selection(s, e) ==
    [x |-> Min(s.x, e.x), y |-> Min(s.y, e.y),
     width |-> Abs(e.x - s.x), height |-> Abs(e.y - s.y)]

\* variant: rejected only when both sides are short
SelectionTooSmallBoth(r) ==
    r.width < MinSelection * Unit /\ r.height < MinSelection * Unit

\* if (width < 10 || height < 10)
SelectionTooSmall(r) ==
    r.width < MinSelection * Unit \/ r.height < MinSelection * Unit

\* disabled={startPos.x === endPos.x || startPos.y === endPos.y}
ConfirmDisabled == startPos.x = endPos.x \/ startPos.y = endPos.y

\* variant: a move is followed whether or not a drag is under way
MoveAppliesAlways(selecting) == TRUE

\* if (!isSelecting) return
MoveApplies(selecting) == selecting

\* the drawing effect: a new Image of the page, whose onload sizes the canvas; loads
\* of the same page size the canvas alike, so the pending loads are a set of pages
Redraw(page) == draws' = draws \cup {page}

\* cropCanvas.width = width; drawImage(img, x, y, width, height, 0, 0, width, height)
CroppedImage(c) ==
    [page |-> c.page, sx |-> c.x, sy |-> c.y, sw |-> c.width, sh |-> c.height,
     width |-> c.width \div Unit, height |-> c.height \div Unit]

\* the dialog with its pages loaded and the first page drawn
SelInit ==
    /\ pdfPages \in {[k \in 1..n |-> NativeSize(k)] : n \in 1..MaxSelPages}
    /\ currentPage = 0
    /\ isSelecting = FALSE
    /\ startPos = Origin
    /\ endPos = Origin
    /\ canvas = pdfPages[1]
    /\ draws = {}
    /\ crops = {}
    /\ completed = << >>
    /\ mounted = TRUE
    /\ last = Ran("none", NoEvent, FALSE)
    /\ RecIdle
    /\ CropIdle
    /\ AppIdle
    /\ UiIdle
    /\ LogIdle

\* variant: a pointer-down during a drag is ignored
handleMouseDownFromIdle(e) ==
    /\ mounted
    /\ PointerFree
    /\ IF isSelecting
       THEN UNCHANGED <<startPos, endPos, draws>>
       ELSE /\ startPos' = GetMousePos(e, canvas)
            /\ endPos' = GetMousePos(e, canvas)
            /\ Redraw(currentPage)
    /\ isSelecting' = TRUE
    /\ last' = Ran("mousedown", e, FALSE)
    /\ UNCHANGED <<pdfPages, currentPage, canvas, crops, completed, mounted>>
    /\ UNCHANGED notSel

\* handleMouseDown: setStartPos({x, y}); setEndPos({x, y}); setIsSelecting(true)
handleMouseDown(e) ==
    /\ mounted
    /\ PointerFree
    /\ startPos' = GetMousePos(e, canvas)
    /\ endPos' = GetMousePos(e, canvas)
    /\ isSelecting' = TRUE
    /\ Redraw(currentPage)
    /\ last' = Ran("mousedown", e, FALSE)
    /\ UNCHANGED <<pdfPages, currentPage, canvas, crops, completed, mounted>>
    /\ UNCHANGED notSel

\* handleMouseMove: if (!isSelecting) return; setEndPos({x, y})
handleMouseMove(e) ==
    /\ mounted
    /\ PointerFree
    /\ IF MoveApplies(isSelecting)
       THEN endPos' = GetMousePos(e, canvas) /\ Redraw(currentPage)
       ELSE UNCHANGED <<endPos, draws>>
    /\ last' = Ran("mousemove", e, FALSE)
    /\ UNCHANGED <<pdfPages, currentPage, isSelecting, startPos, canvas, crops,
                   completed, mounted>>
    /\ UNCHANGED notSel

\* handleMouseUp: setIsSelecting(false)
handleMouseUp ==
    /\ mounted
    /\ isSelecting' = FALSE
    /\ IF isSelecting THEN Redraw(currentPage) ELSE UNCHANGED draws
    /\ last' = Ran("mouseup", NoEvent, FALSE)
    /\ UNCHANGED <<pdfPages, currentPage, startPos, endPos, canvas, crops, completed,
                   mounted>>
    /\ UNCHANGED notSel

\* variant: the selection is carried over to the new page
handlePageChangeKeepsSelection(p) ==
    /\ mounted
    /\ p \in 0..(Len(pdfPages) - 1)
    /\ p # currentPage
    /\ currentPage' = p
    /\ Redraw(p)
    /\ last' = Ran("pagechange", NoEvent, FALSE)
    /\ UNCHANGED <<pdfPages, isSelecting, startPos, endPos, canvas, crops, completed,
                   mounted>>
    /\ UNCHANGED notSel

\* onChange of the page select: setCurrentPage(...); setStartPos({0,0}); setEndPos({0,0})
handlePageChange(p) ==
    /\ mounted
    /\ p \in 0..(Len(pdfPages) - 1)
    /\ p # currentPage
    /\ currentPage' = p
    /\ startPos' = Origin
    /\ endPos' = Origin
    /\ Redraw(p)
    /\ last' = Ran("pagechange", NoEvent, FALSE)
    /\ UNCHANGED <<pdfPages, isSelecting, canvas, crops, completed, mounted>>
    /\ UNCHANGED notSel

\* handleCropConfirm, up to img.src = pdfPages[currentPage]: the button is enabled,
\* the short selection is turned away with an alert, the other starts the page's load
handleCropConfirm ==
    /\ mounted
    /\ ~ConfirmDisabled
    /\ LET r == Selection(startPos, endPos)
       IN  IF SelectionTooSmall(r)
           THEN /\ last' = Ran("confirm", NoEvent, TRUE)
                /\ UNCHANGED crops
           ELSE /\ Cardinality(crops) + Len(completed) < MaxCrops
                /\ last' = Ran("confirm", NoEvent, FALSE)
                /\ crops' = crops \cup {[page |-> currentPage, x |-> r.x, y |-> r.y,
                                         width |-> r.width, height |-> r.height]}
    /\ UNCHANGED <<pdfPages, currentPage, isSelecting, startPos, endPos, canvas, draws,
                   completed, mounted>>
    /\ UNCHANGED notSel

\* img.onload of the drawing effect: canvas.width = img.width; canvas.height = img.height
DrawOnload(p) ==
    /\ p \in draws
    /\ draws' = draws \ {p}
    /\ canvas' = pdfPages[p + 1]
    /\ last' = Ran("drawonload", NoEvent, FALSE)
    /\ UNCHANGED <<pdfPages, currentPage, isSelecting, startPos, endPos, crops,
                   completed, mounted>>
    /\ UNCHANGED notSel

\* img.onload of handleCropConfirm: without a 2d context nothing is handed over;
\* otherwise onCropComplete(croppedImage), upon which the application closes the dialog
CropOnload(c, ctx) ==
    /\ c \in crops
    /\ crops' = crops \ {c}
    /\ IF ctx
       THEN completed' = Append(completed, CroppedImage(c)) /\ mounted' = FALSE
       ELSE UNCHANGED <<completed, mounted>>
    /\ last' = Ran("croponload", NoEvent, FALSE)
    /\ UNCHANGED <<pdfPages, currentPage, isSelecting, startPos, endPos, canvas, draws>>
    /\ UNCHANGED notSel

\* onClose: the application takes the dialog down
onClose ==
    /\ mounted
    /\ mounted' = FALSE
    /\ last' = Ran("close", NoEvent, FALSE)
    /\ UNCHANGED <<pdfPages, currentPage, isSelecting, startPos, endPos, canvas, draws,
                   crops, completed>>
    /\ UNCHANGED notSel

SelNext ==
    \/ \E e \in PointerEvents : handleMouseDown(e)
    \/ \E e \in PointerEvents : handleMouseMove(e)
    \/ handleMouseUp
    \/ \E p \in 0..(MaxSelPages - 1) : handlePageChange(p)
    \/ handleCropConfirm
    \/ \E p \in 0..(MaxSelPages - 1) : DrawOnload(p)
    \/ \E c \in crops : \E ctx \in BOOLEAN : CropOnload(c, ctx)
    \/ onClose

SpecSelector == SelInit /\ [][SelNext]_vars

\* ======================================= review and export run on their own
\* questions on the review list
MaxQuestions == 3

\* exports started
MaxAttempts == 1

\* reviewer actions taken once an export has been started
MaxTouched == 1

\* a question of the review list with the crops the reviewer attached: the first has
\* a diagram and one option diagram, the second two option diagrams, the others none
Question(k) ==
    [id |-> k, isSelected |-> TRUE, edited |-> FALSE,
     image |-> IF k = 1 THEN "data" ELSE "null",
     options |-> IF k = 1 THEN <<"data", "null">>
                 ELSE IF k = 2 THEN <<"data", "data">>
                 ELSE <<"null", "null">>]

\* image && image.startsWith('data:')
IsDataUrl(img) == img = "data"

\* the images to upload: <<k, 0>> the diagram of question k, <<k, j>> of its option j
ImageSlots(qs) ==
    UNION {{<<k, 0>> : x \in IF IsDataUrl(qs[k].image) THEN {0} ELSE {}}
           \cup {<<k, j>> : j \in {n \in 1..Len(qs[k].options) :
                                      IsDataUrl(qs[k].options[n])}} :
           k \in 1..Len(qs)}

\* totalImages
TotalImages(qs) == Cardinality(ImageSlots(qs))

\* questions.map(async ...): each question's function runs to its first await, the
\* upload of its diagram if it has one and else the uploads of its options
StartUploads(qs) ==
    [t \in ImageSlots(qs) |->
        IF t[2] # 0 /\ IsDataUrl(qs[t[1]].image) THEN "waiting" ELSE "inflight"]

\* after the diagram's upload the uploads of the question's options are started
AfterResolve(u, t) ==
    [v \in DOMAIN u |->
        IF v = t THEN "done"
        ELSE IF t[2] = 0 /\ v[1] = t[1] /\ u[v] = "waiting" THEN "inflight"
        ELSE u[v]]

AllDone(u) == \A t \in DOMAIN u : u[t] = "done"

\* variant: the position of the image is reported instead of the shared count
ProgressCallBySlot(count, total, t) == [current |-> t[1], total |-> total]

\* uploadCount++; onProgress(uploadCount, totalImages), after the upload of image t
ProgressCall(count, total, t) == [current |-> count, total |-> total]

\* questionCopy.image = firebaseURL; optionCopy.image = firebaseURL
FirebaseCopy(q) ==
    [q EXCEPT !.image = IF IsDataUrl(q.image) THEN "url" ELSE q.image,
              !.options = [j \in 1..Len(q.options) |->
                              IF IsDataUrl(q.options[j]) THEN "url" ELSE q.options[j]]]

FirebaseData(qs) == [k \in 1..Len(qs) |-> FirebaseCopy(qs[k])]

\* createExportZip: questionCopy.image = `images/${filename}`
ZipCopy(q) ==
    [q EXCEPT !.image = IF IsDataUrl(q.image) THEN "path" ELSE q.image,
              !.options = [j \in 1..Len(q.options) |->
                              IF IsDataUrl(q.options[j]) THEN "path" ELSE q.options[j]]]

ZipData(qs) == [k \in 1..Len(qs) |-> ZipCopy(qs[k])]

\* variant: the whole list is exported
SelectedOfAll(qs) == qs

\* questions.filter(q => q.isSelected)
SelectedOf(qs) == SelectSeq(qs, LAMBDA q : q.isSelected)

\* selectedCount
SelectedCount == Len(SelectedOf(questions))

\* the review step with the list the oracle client returned
ExportInit ==
    /\ questions \in {[k \in 1..n |-> Question(k)] : n \in 1..MaxQuestions}
    /\ currentStep = "REVIEW"
    /\ isProcessing = FALSE
    /\ error = "null"
    /\ epc = "idle"
    /\ selectedQuestions = << >>
    /\ uploads = << >>
    /\ uploadCount = 0
    /\ progress = << >>
    /\ posted = NotPosted
    /\ mongo = "none"
    /\ archive = NoArchive
    /\ attempts = 0
    /\ startList = << >>
    /\ touched = 0
    /\ RecIdle
    /\ CropIdle
    /\ SelIdle
    /\ UiIdle
    /\ LogIdle

\* the cards are shown in the review step; once an export has been started the
\* reviewer's actions are counted
Touch ==
    /\ currentStep = "REVIEW"
    /\ attempts = 0 \/ touched < MaxTouched
    /\ touched' = IF attempts = 0 THEN 0 ELSE touched + 1

\* the checkbox: handleFieldChange('isSelected', e.target.checked), onUpdate
handleToggle(n) ==
    /\ n \in 1..Len(questions)
    /\ Touch
    /\ questions' = [questions EXCEPT ![n].isSelected = ~questions[n].isSelected]
    /\ UNCHANGED <<currentStep, isProcessing, error, epc, selectedQuestions, uploads,
                   uploadCount, progress, posted, mongo, archive, attempts, startList>>
    /\ UNCHANGED notApp

\* any other field: handleFieldChange(field, value), onUpdate
handleEdit(n) ==
    /\ n \in 1..Len(questions)
    /\ ~questions[n].edited
    /\ Touch
    /\ questions' = [questions EXCEPT ![n].edited = TRUE]
    /\ UNCHANGED <<currentStep, isProcessing, error, epc, selectedQuestions, uploads,
                   uploadCount, progress, posted, mongo, archive, attempts, startList>>
    /\ UNCHANGED notApp

\* onDelete: setQuestions(questions.filter((_, idx) => idx !== i))
onDelete(n) ==
    /\ n \in 1..Len(questions)
    /\ Touch
    /\ questions' = [k \in 1..(Len(questions) - 1) |->
                        IF k < n THEN questions[k] ELSE questions[k + 1]]
    /\ UNCHANGED <<currentStep, isProcessing, error, epc, selectedQuestions, uploads,
                   uploadCount, progress, posted, mongo, archive, attempts, startList>>
    /\ UNCHANGED notApp

\* the request to the ingestion server with the questions after their uploads
Post(qs) == [made |-> TRUE, body |-> FirebaseData(qs)]

\* handleDownloadJSON up to its first await; the button is disabled when
\* selectedCount === 0 || isProcessing. Without images Promise.all resolves at once
\* and the request to the ingestion server is made.
handleDownloadJSON ==
    /\ currentStep = "REVIEW"
    /\ SelectedCount # 0
    /\ ~isProcessing
    /\ attempts < MaxAttempts
    /\ \A t \in DOMAIN uploads : uploads[t] # "inflight"
    /\ attempts' = attempts + 1
    /\ isProcessing' = TRUE
    /\ selectedQuestions' = SelectedOf(questions)
    /\ startList' = questions
    /\ touched' = 0
    /\ uploads' = StartUploads(selectedQuestions')
    /\ uploadCount' = 0
    /\ progress' = << >>
    /\ mongo' = "none"
    /\ archive' = NoArchive
    /\ IF ImageSlots(selectedQuestions') = {}
       THEN epc' = "posting" /\ posted' = Post(selectedQuestions')
       ELSE epc' = "uploading" /\ posted' = NotPosted
    /\ UNCHANGED <<questions, currentStep, error>>
    /\ UNCHANGED notApp

\* uploadImageToFirebase resolves: the count, the progress call, the options' uploads;
\* with the last one Promise.all resolves and the request to the server is made
UploadResolves(t) ==
    /\ t \in DOMAIN uploads
    /\ uploads[t] = "inflight"
    /\ uploads' = AfterResolve(uploads, t)
    /\ uploadCount' = uploadCount + 1
    /\ progress' = Append(progress,
                          ProgressCall(uploadCount', TotalImages(selectedQuestions), t))
    /\ IF epc = "uploading" /\ AllDone(uploads')
       THEN epc' = "posting" /\ posted' = Post(selectedQuestions)
       ELSE UNCHANGED <<epc, posted>>
    /\ UNCHANGED <<questions, currentStep, isProcessing, error, selectedQuestions, mongo,
                   archive, attempts, startList, touched>>
    /\ UNCHANGED notApp

\* variant: the failure of an upload is swallowed and the export goes on
UploadRejectsIgnored(t) ==
    /\ t \in DOMAIN uploads
    /\ uploads[t] = "inflight"
    /\ uploads' = [uploads EXCEPT ![t] = "failed"]
    /\ IF epc = "uploading" /\ \A v \in DOMAIN uploads' : uploads'[v] \in {"done", "failed"}
       THEN epc' = "posting" /\ posted' = Post(selectedQuestions)
       ELSE UNCHANGED <<epc, posted>>
    /\ UNCHANGED <<questions, currentStep, isProcessing, error, selectedQuestions,
                   uploadCount, progress, mongo, archive, attempts, startList, touched>>
    /\ UNCHANGED notApp

\* uploadImageToFirebase throws: the question's function and Promise.all reject, and
\* the catch of handleDownloadJSON sets the error and clears isProcessing; the uploads
\* still in flight go on
UploadRejects(t) ==
    /\ t \in DOMAIN uploads
    /\ uploads[t] = "inflight"
    /\ uploads' = [uploads EXCEPT ![t] = "failed"]
    /\ IF epc = "uploading"
       THEN /\ epc' = "failed"
            /\ error' = "Failed to upload image"
            /\ isProcessing' = FALSE
       ELSE UNCHANGED <<epc, error, isProcessing>>
    /\ UNCHANGED <<questions, currentStep, selectedQuestions, uploadCount, progress,
                   posted, mongo, archive, attempts, startList, touched>>
    /\ UNCHANGED notApp

\* uploadDataToMongoDB resolves
MongoResolves ==
    /\ epc = "posting"
    /\ epc' = "zipping"
    /\ mongo' = "ok"
    /\ UNCHANGED <<questions, currentStep, isProcessing, error, selectedQuestions,
                   uploads, uploadCount, progress, posted, archive, attempts, startList,
                   touched>>
    /\ UNCHANGED notApp

\* variant: the failure of the request ends the export
MongoRejectsAborts ==
    /\ epc = "posting"
    /\ epc' = "failed"
    /\ mongo' = "warned"
    /\ error' = "MongoDB Upload Failed"
    /\ isProcessing' = FALSE
    /\ UNCHANGED <<questions, currentStep, selectedQuestions, uploads, uploadCount,
                   progress, posted, archive, attempts, startList, touched>>
    /\ UNCHANGED notApp

\* uploadDataToMongoDB throws: alert(`Warning: MongoDB Upload failed ...`), and on
MongoRejects ==
    /\ epc = "posting"
    /\ epc' = "zipping"
    /\ mongo' = "warned"
    /\ UNCHANGED <<questions, currentStep, isProcessing, error, selectedQuestions,
                   uploads, uploadCount, progress, posted, archive, attempts, startList,
                   touched>>
    /\ UNCHANGED notApp

\* createExportZip, questions_firebase.json, downloadBlob, and the timer is set
ZipResolves ==
    /\ epc = "zipping"
    /\ epc' = "downloaded"
    /\ archive' = [built |-> TRUE, questions |-> ZipData(selectedQuestions),
                   firebase |-> posted.body, downloaded |-> TRUE]
    /\ UNCHANGED <<questions, currentStep, isProcessing, error, selectedQuestions,
                   uploads, uploadCount, progress, posted, mongo, attempts, startList,
                   touched>>
    /\ UNCHANGED notApp

\* the archive cannot be made: the catch of handleDownloadJSON
ZipRejects ==
    /\ epc = "zipping"
    /\ epc' = "failed"
    /\ error' = "Failed to create export package."
    /\ isProcessing' = FALSE
    /\ UNCHANGED <<questions, currentStep, selectedQuestions, uploads, uploadCount,
                   progress, posted, mongo, archive, attempts, startList, touched>>
    /\ UNCHANGED notApp

\* setTimeout(() => { setCurrentStep(COMPLETE); setIsProcessing(false) }, 500)
ExportTimeout ==
    /\ epc = "downloaded"
    /\ epc' = "done"
    /\ currentStep' = "COMPLETE"
    /\ isProcessing' = FALSE
    /\ UNCHANGED <<questions, error, selectedQuestions, uploads, uploadCount, progress,
                   posted, mongo, archive, attempts, startList, touched>>
    /\ UNCHANGED notApp

ExportNext ==
    \/ \E n \in 1..MaxQuestions : handleToggle(n)
    \/ \E n \in 1..MaxQuestions : handleEdit(n)
    \/ \E n \in 1..MaxQuestions : onDelete(n)
    \/ handleDownloadJSON
    \/ \E t \in DOMAIN uploads : UploadResolves(t)
    \/ \E t \in DOMAIN uploads : UploadRejects(t)
    \/ MongoResolves
    \/ MongoRejects
    \/ ZipResolves
    \/ ZipRejects
    \/ ExportTimeout

SpecExport == ExportInit /\ [][ExportNext]_vars

\* ==================================================== the log listeners
\* listener functions, and calls of log in a run
MaxListeners == 3

MaxLogs == 2

\* what a listener does when it is called with an entry: nothing, or it calls the
\* unsubscribe function of a registration (of its own or of another listener)
Reactions == {0} \cup (1..MaxListeners)

\* listeners.indexOf(fn): the first index, 0-based, or -1
IndexOf(s, fn) ==
    IF \E k \in 1..Len(s) : s[k] = fn
    THEN (CHOOSE k \in 1..Len(s) : s[k] = fn /\ \A j \in 1..(k - 1) : s[j] # fn) - 1
    ELSE 0 - 1

\* listeners.splice(idx, 1), idx 0-based
Splice(s, idx) == SubSeq(s, 1, idx) \o SubSeq(s, idx + 2, Len(s))

\* the function addLogListener returns: const idx = listeners.indexOf(fn);
\* if (idx > -1) listeners.splice(idx, 1)
Unsubscribed(s, fn) == IF IndexOf(s, fn) > 0 - 1 THEN Splice(s, IndexOf(s, fn)) ELSE s

LogInit ==
    /\ LogIdle
    /\ RecIdle
    /\ CropIdle
    /\ SelIdle
    /\ AppIdle
    /\ UiIdle

\* addLogListener(fn) with a function not yet registered: listeners.push(fn)
addLogListener ==
    /\ ~dispatch.active
    /\ registered < MaxListeners
    /\ registered' = registered + 1
    /\ listeners' = Append(listeners, registered')
    /\ UNCHANGED <<dispatch, logs, unsubscribed>>
    /\ UNCHANGED notLog

\* the unsubscribe function of listener fn is called between two calls of log
unsubscribe(fn) ==
    /\ ~dispatch.active
    /\ fn \in 1..registered
    /\ fn \notin unsubscribed
    /\ listeners' = Unsubscribed(listeners, fn)
    /\ unsubscribed' = unsubscribed \cup {fn}
    /\ UNCHANGED <<registered, dispatch, logs>>
    /\ UNCHANGED notLog

\* log(message, level) up to the first callback: forEach reads the length once
logStart ==
    /\ ~dispatch.active
    /\ logs < MaxLogs
    /\ logs' = logs + 1
    /\ dispatch' = [active |-> TRUE, idx |-> 0, len |-> Len(listeners),
                    atStart |-> listeners, called |-> << >>]
    /\ UNCHANGED <<listeners, registered, unsubscribed>>
    /\ UNCHANGED notLog

\* one round of forEach: the index is skipped when the array no longer has it, else
\* fn(entry) is called, and the listener may call an unsubscribe function
logStep(reaction) ==
    /\ dispatch.active
    /\ dispatch.idx < dispatch.len
    /\ LET s == listeners
       IN  IF dispatch.idx < Len(s)
           THEN /\ dispatch' = [dispatch EXCEPT !.idx = @ + 1,
                                                !.called = Append(@, s[dispatch.idx + 1])]
                /\ IF reaction \in 1..registered /\ reaction \notin unsubscribed
                   THEN /\ listeners' = Unsubscribed(listeners, reaction)
                        /\ unsubscribed' = unsubscribed \cup {reaction}
                   ELSE /\ reaction = 0
                        /\ UNCHANGED <<listeners, unsubscribed>>
           ELSE /\ reaction = 0
                /\ dispatch' = [dispatch EXCEPT !.idx = @ + 1]
                /\ UNCHANGED <<listeners, unsubscribed>>
    /\ UNCHANGED <<registered, logs>>
    /\ UNCHANGED notLog

\* forEach has gone through the indices: log returns
logEnd ==
    /\ dispatch.active
    /\ dispatch.idx >= dispatch.len
    /\ dispatch' = [dispatch EXCEPT !.active = FALSE]
    /\ UNCHANGED <<listeners, registered, logs, unsubscribed>>
    /\ UNCHANGED notLog

LogNext ==
    \/ addLogListener
    \/ \E fn \in 1..MaxListeners : unsubscribe(fn)
    \/ logStart
    \/ \E reaction \in Reactions : logStep(reaction)
    \/ logEnd

SpecLog == LogInit /\ [][LogNext]_vars

\* ============================== the review list with the crop dialog
\* questions the oracle client returns to the application
MaxParsed == 2

\* crops requested, and confirmed crops whose page image has not loaded yet
MaxRequests == 2

MaxDecodes == 1

\* a record of the text-only client on the review list: image: null, hasImage: false;
\* the first question has two options, the others none
NewQuestion(k) ==
    [id |-> k, isSelected |-> TRUE, edited |-> FALSE, image |-> "null",
     hasImage |-> FALSE, options |-> IF k = 1 THEN <<"null", "null">> ELSE << >>]

\* the questions array the client resolves with
Parsed(n) == [k \in 1..n |-> NewQuestion(k)]

\* the arrow function a card hands to onRequestImageCrop: it closes over the index and
\* the question of the card, and over the list of the render the card was made in
\* (optIndex 0: the diagram of the question)
Continuation(k, j) ==
    [set |-> TRUE, index |-> k, optIndex |-> j, question |-> questions[k],
     list |-> questions, request |-> requests + 1]

\* onUpdate(i, updated): const next = [...questions]; next[i] = updated;
\* setQuestions(next), with the questions of the render the handler was made in
OnUpdate(list, k, updated) == [list EXCEPT ![k] = updated]

\* handleFieldChange('image', value): onUpdate(index, { ...question, image: value })
FieldChange(list, k, q, value) == OnUpdate(list, k, [q EXCEPT !.image = value])

\* handleOptionChange(optIndex, 'image', value): the option replaced by a copy with
\* the image, onUpdate(index, { ...question, options: newOptions })
OptionChange(list, k, q, j, value) ==
    OnUpdate(list, k, [q EXCEPT !.options = [q.options EXCEPT ![j] = value]])

\* cropCallback(croppedImage), the stored arrow function called with the crop
Continue(cb, value) ==
    IF cb.optIndex = 0
    THEN FieldChange(cb.list, cb.index, cb.question, value)
    ELSE OptionChange(cb.list, cb.index, cb.question, cb.optIndex, value)

\* the cards can be clicked: the review step, and no dialog laid over the page
CardsFree == currentStep = "REVIEW" /\ ~showCropModal

\* the review step of a PDF, with the list the client returned
ReviewInit ==
    /\ questions \in {Parsed(n) : n \in 1..MaxParsed}
    /\ currentStep = "REVIEW"
    /\ isProcessing = FALSE
    /\ error = "null"
    /\ epc = "idle"
    /\ selectedQuestions = << >>
    /\ uploads = << >>
    /\ uploadCount = 0
    /\ progress = << >>
    /\ posted = NotPosted
    /\ mongo = "none"
    /\ archive = NoArchive
    /\ attempts = 0
    /\ startList = << >>
    /\ touched = 0
    /\ sourceFile = "file"
    /\ sourceName = "paper.pdf"
    /\ rawText = "text"
    /\ isExtracting = FALSE
    /\ reads = {}
    /\ files = 1
    /\ aiCalls = 0
    /\ showCropModal = FALSE
    /\ cropCallback = NoCallback
    /\ decodes = {}
    /\ requests = 0
    /\ cancelled = {}
    /\ RecIdle
    /\ CropIdle
    /\ SelIdle
    /\ LogIdle

\* handleRequestImageCrop(callback): setCropCallback(() => callback);
\* setShowCropModal(true)
handleRequestImageCrop(callback) ==
    /\ requests < MaxRequests
    /\ requests' = requests + 1
    /\ cropCallback' = callback
    /\ showCropModal' = TRUE
    /\ UNCHANGED <<sourceFile, sourceName, rawText, isExtracting, reads, files, aiCalls,
                   decodes, cancelled>>
    /\ UNCHANGED appVars
    /\ UNCHANGED notUi

\* handleAddQuestionImage: without a PDF an alert and nothing else
handleAddQuestionImage(k) ==
    /\ CardsFree
    /\ k \in 1..Len(questions)
    /\ sourceFile # "null"
    /\ handleRequestImageCrop(Continuation(k, 0))

\* handleAddOptionImage(optIndex)
handleAddOptionImage(k, j) ==
    /\ CardsFree
    /\ k \in 1..Len(questions)
    /\ j \in 1..Len(questions[k].options)
    /\ sourceFile # "null"
    /\ handleRequestImageCrop(Continuation(k, j))

\* the X on the diagram, shown when there is one: handleFieldChange('image', null)
handleRemoveImage(k) ==
    /\ CardsFree
    /\ k \in 1..Len(questions)
    /\ questions[k].image # "null"
    /\ questions' = FieldChange(questions, k, questions[k], "null")
    /\ UNCHANGED <<currentStep, isProcessing, error, epc, selectedQuestions, uploads,
                   uploadCount, progress, posted, mongo, archive, attempts, startList,
                   touched>>
    /\ UNCHANGED uiVars
    /\ UNCHANGED notUi

\* the X on an option's diagram: handleOptionChange(i, 'image', null)
handleRemoveOptionImage(k, j) ==
    /\ CardsFree
    /\ k \in 1..Len(questions)
    /\ j \in 1..Len(questions[k].options)
    /\ questions[k].options[j] # "null"
    /\ questions' = OptionChange(questions, k, questions[k], j, "null")
    /\ UNCHANGED <<currentStep, isProcessing, error, epc, selectedQuestions, uploads,
                   uploadCount, progress, posted, mongo, archive, attempts, startList,
                   touched>>
    /\ UNCHANGED uiVars
    /\ UNCHANGED notUi

\* Confirm Crop in the dialog with a selection that is taken: the page image is set
\* to load, and its onload will call the onCropComplete the dialog was rendered with,
\* the handleCropComplete that holds the continuation stored at that time
ConfirmCrop ==
    /\ showCropModal
    /\ sourceFile # "null"
    /\ Cardinality(decodes) < MaxDecodes
    /\ cropCallback \notin decodes
    /\ decodes' = decodes \cup {cropCallback}
    /\ UNCHANGED <<sourceFile, sourceName, rawText, isExtracting, reads, files, aiCalls,
                   showCropModal, cropCallback, requests, cancelled>>
    /\ UNCHANGED appVars
    /\ UNCHANGED notUi

\* onClose of the dialog: setShowCropModal(false); setCropCallback(null)
CloseCrop ==
    /\ showCropModal
    /\ sourceFile # "null"
    /\ showCropModal' = FALSE
    /\ cropCallback' = NoCallback
    /\ cancelled' = cancelled \cup {cropCallback.request}
    /\ UNCHANGED <<sourceFile, sourceName, rawText, isExtracting, reads, files, aiCalls,
                   decodes, requests>>
    /\ UNCHANGED appVars
    /\ UNCHANGED notUi

\* the onload of a confirmed crop: handleCropComplete(croppedImage) of the render the
\* crop was confirmed in: if (cropCallback) cropCallback(croppedImage);
\* setShowCropModal(false); setCropCallback(null)
handleCropComplete(c) ==
    /\ c \in decodes
    /\ decodes' = decodes \ {c}
    /\ questions' = (IF c.set THEN Continue(c, "data") ELSE questions)
    /\ showCropModal' = FALSE
    /\ cropCallback' = NoCallback
    /\ UNCHANGED <<currentStep, isProcessing, error, epc, selectedQuestions, uploads,
                   uploadCount, progress, posted, mongo, archive, attempts, startList,
                   touched>>
    /\ UNCHANGED <<sourceFile, sourceName, rawText, isExtracting, reads, files, aiCalls,
                   requests, cancelled>>
    /\ UNCHANGED notUi

ReviewNext ==
    \/ \E n \in 1..MaxParsed : CardsFree /\ handleToggle(n)
    \/ \E n \in 1..MaxParsed : CardsFree /\ onDelete(n)
    \/ \E k \in 1..MaxParsed : handleAddQuestionImage(k)
    \/ \E k \in 1..MaxParsed : \E j \in 1..2 : handleAddOptionImage(k, j)
    \/ \E k \in 1..MaxParsed : handleRemoveImage(k)
    \/ \E k \in 1..MaxParsed : \E j \in 1..2 : handleRemoveOptionImage(k, j)
    \/ ConfirmCrop
    \/ CloseCrop
    \/ \E c \in decodes : handleCropComplete(c)

SpecReview == ReviewInit /\ [][ReviewNext]_vars

\* ================================================= the steps of the application
\* files chosen in a run
MaxFiles == 2

\* the application as it is first rendered
FlowInit ==
    /\ AppIdle
    /\ UiIdle
    /\ RecIdle
    /\ CropIdle
    /\ SelIdle
    /\ LogIdle

\* handleFileUpload up to its await: the input is shown in the upload step while no
\* PDF is being read; a PDF goes to extractTextFromPDF, any other file to a FileReader
handleFileUpload(isPdf) ==
    /\ currentStep = "UPLOAD"
    /\ ~isExtracting
    /\ files < MaxFiles
    /\ files' = files + 1
    /\ sourceName' = "paper"
    /\ sourceFile' = "file"
    /\ error' = "null"
    /\ isExtracting' = isPdf
    /\ reads' = reads \cup {[file |-> files', isPdf |-> isPdf]}
    /\ UNCHANGED <<rawText, aiCalls, showCropModal, cropCallback, decodes, requests,
                   cancelled>>
    /\ UNCHANGED <<questions, currentStep, isProcessing, epc, selectedQuestions, uploads,
                   uploadCount, progress, posted, mongo, archive, attempts, startList,
                   touched>>
    /\ UNCHANGED notUi

\* extractTextFromPDF resolves: setRawText(text); setCurrentStep(EXTRACT); finally
\* setIsExtracting(false)
ExtractResolves(r) ==
    /\ r \in reads
    /\ r.isPdf
    /\ reads' = reads \ {r}
    /\ rawText' = "text"
    /\ currentStep' = "EXTRACT"
    /\ isExtracting' = FALSE
    /\ UNCHANGED <<sourceFile, sourceName, files, aiCalls, showCropModal, cropCallback,
                   decodes, requests, cancelled>>
    /\ UNCHANGED <<questions, isProcessing, error, epc, selectedQuestions, uploads,
                   uploadCount, progress, posted, mongo, archive, attempts, startList,
                   touched>>
    /\ UNCHANGED notUi

\* extractTextFromPDF throws: setError(...); finally setIsExtracting(false)
ExtractRejects(r) ==
    /\ r \in reads
    /\ r.isPdf
    /\ reads' = reads \ {r}
    /\ error' = "Failed to extract text from PDF."
    /\ isExtracting' = FALSE
    /\ UNCHANGED <<sourceFile, sourceName, rawText, files, aiCalls, showCropModal,
                   cropCallback, decodes, requests, cancelled>>
    /\ UNCHANGED <<questions, currentStep, isProcessing, epc, selectedQuestions, uploads,
                   uploadCount, progress, posted, mongo, archive, attempts, startList,
                   touched>>
    /\ UNCHANGED notUi

\* reader.onload: setRawText(...); setSourceFile(null); setCurrentStep(EXTRACT)
ReaderOnload(r) ==
    /\ r \in reads
    /\ ~r.isPdf
    /\ reads' = reads \ {r}
    /\ rawText' = "text"
    /\ sourceFile' = "null"
    /\ currentStep' = "EXTRACT"
    /\ UNCHANGED <<sourceName, isExtracting, files, aiCalls, showCropModal, cropCallback,
                   decodes, requests, cancelled>>
    /\ UNCHANGED <<questions, isProcessing, error, epc, selectedQuestions, uploads,
                   uploadCount, progress, posted, mongo, archive, attempts, startList,
                   touched>>
    /\ UNCHANGED notUi

\* handleAIProcessing up to its await; the button is shown in the extract step and
\* disabled while isProcessing
handleAIProcessing ==
    /\ currentStep = "EXTRACT"
    /\ ~isProcessing
    /\ isProcessing' = TRUE
    /\ error' = "null"
    /\ aiCalls' = aiCalls + 1
    /\ UNCHANGED <<sourceFile, sourceName, rawText, isExtracting, reads, files,
                   showCropModal, cropCallback, decodes, requests, cancelled>>
    /\ UNCHANGED <<questions, currentStep, epc, selectedQuestions, uploads, uploadCount,
                   progress, posted, mongo, archive, attempts, startList, touched>>
    /\ UNCHANGED notUi

\* parseQuestionsWithGemini resolves: setQuestions(parsed); setCurrentStep(REVIEW);
\* finally setIsProcessing(false)
AIResolves(n) ==
    /\ aiCalls > 0
    /\ aiCalls' = aiCalls - 1
    /\ questions' = Parsed(n)
    /\ currentStep' = "REVIEW"
    /\ isProcessing' = FALSE
    /\ UNCHANGED <<sourceFile, sourceName, rawText, isExtracting, reads, files,
                   showCropModal, cropCallback, decodes, requests, cancelled>>
    /\ UNCHANGED <<error, epc, selectedQuestions, uploads, uploadCount, progress, posted,
                   mongo, archive, attempts, startList, touched>>
    /\ UNCHANGED notUi

\* parseQuestionsWithGemini throws: setError(...); finally setIsProcessing(false)
AIRejects ==
    /\ aiCalls > 0
    /\ aiCalls' = aiCalls - 1
    /\ error' = "Failed to process content with Gemini."
    /\ isProcessing' = FALSE
    /\ UNCHANGED <<sourceFile, sourceName, rawText, isExtracting, reads, files,
                   showCropModal, cropCallback, decodes, requests, cancelled>>
    /\ UNCHANGED <<questions, currentStep, epc, selectedQuestions, uploads, uploadCount,
                   progress, posted, mongo, archive, attempts, startList, touched>>
    /\ UNCHANGED notUi

\* PROCESS ANOTHER PAPER, shown in the complete step
handleRestart ==
    /\ currentStep = "COMPLETE"
    /\ currentStep' = "UPLOAD"
    /\ questions' = << >>
    /\ sourceFile' = "null"
    /\ sourceName' = "Manual Input"
    /\ rawText' = ""
    /\ UNCHANGED <<isExtracting, reads, files, aiCalls, showCropModal, cropCallback,
                   decodes, requests, cancelled>>
    /\ UNCHANGED <<isProcessing, error, epc, selectedQuestions, uploads, uploadCount,
                   progress, posted, mongo, archive, attempts, startList, touched>>
    /\ UNCHANGED notUi

FlowNext ==
    \/ \E isPdf \in BOOLEAN : handleFileUpload(isPdf)
    \/ \E r \in reads : ExtractResolves(r)
    \/ \E r \in reads : ExtractRejects(r)
    \/ \E r \in reads : ReaderOnload(r)
    \/ handleAIProcessing
    \/ \E n \in 0..MaxParsed : AIResolves(n)
    \/ AIRejects
    \/ \E n \in 1..MaxParsed : handleToggle(n)
    \/ handleDownloadJSON
    \/ MongoResolves
    \/ MongoRejects
    \/ ZipResolves
    \/ ZipRejects
    \/ ExportTimeout
    \/ handleRestart

SpecApp == FlowInit /\ [][FlowNext]_vars

\* ================================================================= claims
Range(f) == {f[k] : k \in DOMAIN f}

NPages == Len(input.pages)

\* [1,2],[2,3],...,[N-1,N]; [1] alone for one page; nothing for none
ExpectedWindows(n) ==
    IF n = 0 THEN << >>
    ELSE IF n = 1 THEN << <<1>> >>
    ELSE [k \in 1..(n - 1) |-> <<k, k + 1>>]

WellFormed(box) ==
    /\ ~box.null
    /\ Len(box.arr) = 4
    /\ box.arr[1] < box.arr[3]
    /\ box.arr[2] < box.arr[4]

Malformed(box) ==
    \/ box.null
    \/ Len(box.arr) # 4
    \/ box.arr[1] >= box.arr[3]
    \/ box.arr[2] >= box.arr[4]

\* C1: for a page array of N pages the windows submitted to the oracle are, in this
\* order, [1,2],[2,3],...,[N-1,N] ([1] alone when N = 1, none when N = 0): at any time
\* the windows submitted so far are the first of that list, and on return they are the
\* whole list, every page is in some window and every adjacent pair of pages is
\* together in exactly one window.
C1_Windows ==
    ~input.isString =>
        LET e == ExpectedWindows(NPages)
        IN  /\ Len(submitted) <= Len(e)
            /\ \A k \in 1..Len(submitted) : submitted[k] = e[k]
            /\ pc = "done" =>
                /\ submitted = e
                /\ \A p \in 1..NPages :
                       \E k \in 1..Len(submitted) : p \in Range(submitted[k])
                /\ \A p \in 1..(NPages - 1) :
                       Cardinality({k \in 1..Len(submitted) :
                                       {p, p + 1} \subseteq Range(submitted[k])}) = 1

C1_Witness == pc = "done" /\ NPages = 4 /\ Len(submitted) = 3

\* C2: no two accepted questions have stems with the same first 50 characters, and
\* the accepted list is exactly the candidates that were the first, in processing
\* order, to show their 50-character prefix: every later one is discarded.
C2_Dedup ==
    /\ \A j \in 1..Len(allQuestions) : \A k \in 1..Len(allQuestions) :
           j < k => ~SameFirst50(allQuestions[j].text, allQuestions[k].text)
    /\ allQuestions = firstSeen

C2_Witness ==
    /\ pc = "done"
    /\ droppedFrom = {1, 2}
    /\ \E k \in 1..Len(allQuestions) : allQuestions[k].text = TextRetold
    /\ \E k \in 1..Len(allQuestions) : allQuestions[k].text = TextShort

\* C3: the accepted list only ever grows at its end: every step keeps each accepted
\* question at its position, so a question accepted earlier precedes every question
\* accepted later and none is reordered or removed.
C3_AcceptanceOrder ==
    [][/\ Len(allQuestions') >= Len(allQuestions)
       /\ \A k \in 1..Len(allQuestions) : allQuestions'[k] = allQuestions[k]]_vars

C3_Witness == pc = "done" /\ acceptedFrom = <<1, 1, 2>>

\* C4: with the credential present and a page array, a window whose oracle call
\* throws or whose response does not parse is skipped: the call never rejects, the
\* step that records the failure leaves the accepted questions as they are, no
\* accepted question comes from a failed window, and on return every window has
\* still been submitted and the accepted questions are the value resolved.
C4_WindowFailure ==
    /\ [](apiKey /\ ~input.isString => pc # "rejected" /\ result.state # "rejected")
    /\ [](pc = "done" /\ ~input.isString =>
            /\ result = Resolved(allQuestions)
            /\ submitted = ExpectedWindows(NPages)
            /\ \A k \in 1..Len(acceptedFrom) : acceptedFrom[k] \notin failed)
    /\ [][failed' # failed => allQuestions' = allQuestions]_vars

C4_Witness ==
    /\ pc = "done"
    /\ failed = {2}
    /\ Len(submitted) = 3
    /\ {1, 3} \subseteq Range(acceptedFrom)

\* C5: windows are processed one at a time: at most one oracle call is in flight,
\* none is in flight while a window's results wait to be merged, and the call for
\* window i+1 is issued only when the i windows before it have completed and been
\* merged or skipped.
C5_Sequential ==
    /\ inFlight \in {0, 1}
    /\ inFlight = 1 => pc = "await" /\ pending = << >>
    /\ ~input.isString /\ pc = "loop" => Len(submitted) = i
    /\ ~input.isString /\ pc \in {"await", "merge"} => Len(submitted) = i + 1

C5_Witness == pc = "await" /\ i = 2 /\ Len(allQuestions) >= 2

\* the image of a question or an option x produced by the window whose first page is p
CropFromFirstPage(x, p) ==
    /\ x.image.null \/ x.image.src = p
    /\ (~x.hasDiagram \/ x.boundingBox.null) => x.image.null
    /\ (x.hasDiagram /\ WellFormed(x.boundingBox)) => ~x.image.null /\ x.image.src = p

QuestionCropsFromFirstPage(q, p) ==
    /\ CropFromFirstPage(q, p)
    /\ \A k \in 1..Len(q.options) : CropFromFirstPage(q.options[k], p)

\* C6: every question a window [i, i+1] produces, and every accepted question, has as
\* main image a crop of the window's first page i when it is flagged and has a
\* well-formed box, and no image when it has no flag or no box; the same holds of
\* each option on its own flag and box, against the same first page.
C6_FirstPageCrop ==
    ~input.isString =>
        /\ Len(acceptedFrom) = Len(allQuestions)
        /\ \A k \in 1..Len(allQuestions) :
               QuestionCropsFromFirstPage(allQuestions[k], acceptedFrom[k])
        /\ \A k \in 1..Len(pending) : QuestionCropsFromFirstPage(pending[k], i + 1)

C6_Witness ==
    /\ pc = "done"
    /\ \E k \in 1..Len(allQuestions) :
        /\ allQuestions[k].text = TextFragment
        /\ acceptedFrom[k] = 2
        /\ allQuestions[k].image.null
        /\ allQuestions[k].options[1].image.null
        /\ ~allQuestions[k].options[2].image.null
        /\ allQuestions[k].options[2].image.src = 2
    /\ \E k \in 1..Len(allQuestions) :
        /\ allQuestions[k].text = TextWhole
        /\ acceptedFrom[k] = 1
        /\ allQuestions[k].image.src = 1

\* C7: the crop resolves to null whenever the box is malformed (not an array of four,
\* or ymin >= ymax, or xmin >= xmax) or the raster does not decode, and a call that
\* has not resolved yet always can.
C7_NullOnFailure ==
    /\ cpc \in {"idle", "called", "loading", "resolved"}
    /\ cpc \in {"called", "loading"} => ENABLED CropNext
    /\ cpc = "resolved" /\ (Malformed(cbox) \/ ~cimg.decodes) => cresult = NullImage

C7_Witness ==
    /\ cpc = "resolved"
    /\ cimg.decodes
    /\ cimg.ctx
    /\ ~cbox.null
    /\ Len(cbox.arr) = 4
    /\ cbox.arr[1] < cbox.arr[3]
    /\ cbox.arr[2] = cbox.arr[4]
    /\ cresult = NullImage

\* the unpadded box in thousandths of a pixel
BoxWidth == (cbox.arr[4] - cbox.arr[2]) * cimg.w

BoxHeight == (cbox.arr[3] - cbox.arr[1]) * cimg.h

Cropped == cpc = "resolved" /\ ~cresult.null

\* C8: the image produced is at least as wide and as high as the unpadded
\* box, (xmax-xmin)/1000*width by (ymax-ymin)/1000*height, for every raster size.
C8_AtLeastBox ==
    Cropped =>
        /\ cresult.cw * BoxScale >= BoxWidth
        /\ cresult.ch * BoxScale >= BoxHeight

\* C9: the rectangle cropped is the box in pixels, widened by 1% of the raster width
\* to the left and to the right and by 1% of its height above and below, and then
\* cut to the raster: it reaches at most 1% beyond the box on every side.
C9_PaddedThenClipped ==
    Cropped =>
        LET x1 == cbox.arr[2] * cimg.w
            x2 == cbox.arr[4] * cimg.w
            y1 == cbox.arr[1] * cimg.h
            y2 == cbox.arr[3] * cimg.h
            onePercentW == (cimg.w * BoxScale) \div 100
            onePercentH == (cimg.h * BoxScale) \div 100
        IN  /\ cresult.sx = Max(0, x1 - onePercentW)
            /\ cresult.sy = Max(0, y1 - onePercentH)
            /\ cresult.sx + cresult.sw = Min(cimg.w * BoxScale, x2 + onePercentW)
            /\ cresult.sy + cresult.sh = Min(cimg.h * BoxScale, y2 + onePercentH)

\* the record of question 1 that window [1,2] returned whole is the only record of
\* that question accepted from window [1,2]
WholeKeptFromFirstWindow ==
    /\ pc = "done"
    /\ ~input.isString
    /\ NPages = 3
    /\ \E k \in 1..Len(allQuestions) :
           allQuestions[k].text = TextWhole /\ acceptedFrom[k] = 1
    /\ \A k \in 1..Len(allQuestions) :
           (allQuestions[k].about = 1 /\ acceptedFrom[k] = 1) => allQuestions[k].text = TextWhole

\* C10 as stated: in a 3-page document whose question 1 window [1,2] returned whole,
\* the final set holds one record of question 1, whatever window [2,3] returns for it.
C10_OneRecord ==
    WholeKeptFromFirstWindow =>
        Cardinality({k \in 1..Len(allQuestions) : allQuestions[k].about = 1}) = 1

\* C10 amended: in that document the final set holds exactly one record whose stem
\* has the first 50 characters of the whole record's stem, the one from window [1,2];
\* a record window [2,3] returns for the question is left out when its stem has those
\* first 50 characters, so any second record of the question differs within them.
C10_OneRecordPerPrefix ==
    WholeKeptFromFirstWindow =>
        /\ Cardinality({k \in 1..Len(allQuestions) :
                           SameFirst50(allQuestions[k].text, TextWhole)}) = 1
        /\ \A k \in 1..Len(allQuestions) :
               SameFirst50(allQuestions[k].text, TextWhole) =>
                   allQuestions[k].text = TextWhole /\ acceptedFrom[k] = 1

C10_Witness ==
    /\ WholeKeptFromFirstWindow
    /\ droppedFrom = {2}
    /\ acceptedFrom = <<1>>

\* ------------------------------------------------------------ crop selector
\* the point of the raster under the pointer, each axis by its own ratio
NativePoint(e, c) ==
    [x |-> ((e.clientX - e.rect.left) * c.width * Unit) \div e.rect.width,
     y |-> ((e.clientY - e.rect.top) * c.height * Unit) \div e.rect.height]

ShortSide(r) == r.width < MinSelection * Unit \/ r.height < MinSelection * Unit

\* the rectangle lies on the raster of its page
InRaster(page, x, y, w, h) ==
    /\ x >= 0
    /\ y >= 0
    /\ x + w <= pdfPages[page + 1].width * Unit
    /\ y + h <= pdfPages[page + 1].height * Unit

\* C11: a confirm of a selection less than 10 pixels wide or high starts no crop and
\* hands nothing to onCropComplete (no crop, pending or completed, ever has a side
\* below 10 pixels), raises the warning, and leaves startPos, endPos, isSelecting and
\* currentPage as they were.
C11_SmallSelectionRejected ==
    /\ [](/\ \A c \in crops : ~ShortSide(c)
          /\ \A k \in 1..Len(completed) :
                 ~ShortSide([width |-> completed[k].sw, height |-> completed[k].sh]))
    /\ [][(last'.handler = "confirm" /\ ShortSide(Selection(startPos, endPos))) =>
            /\ last'.alert
            /\ crops' = crops
            /\ completed' = completed
            /\ startPos' = startPos
            /\ endPos' = endPos
            /\ isSelecting' = isSelecting
            /\ currentPage' = currentPage]_vars

\* a selection wide enough but not high enough has just been turned away
C11_Witness ==
    /\ last.handler = "confirm"
    /\ last.alert
    /\ Selection(startPos, endPos).width >= MinSelection * Unit
    /\ Selection(startPos, endPos).height < MinSelection * Unit
    /\ crops = {}

\* C12: the point a pointer handler stores is the pointer's offset in the displayed
\* canvas scaled by nativeWidth/displayedWidth on x and nativeHeight/displayedHeight
\* on y, each on its own; the top-left corner of the displayed canvas gives (0,0)
\* whatever the two ratios are, and a pointer within the displayed canvas gives a
\* point within the native raster.
C12_Rescale ==
    LET e == last.event
        stored == IF last.handler = "mousedown" THEN startPos ELSE endPos
    IN  (last.handler = "mousedown" \/ (last.handler = "mousemove" /\ last.selecting)) =>
            /\ stored = NativePoint(e, canvas)
            /\ (e.clientX = e.rect.left /\ e.clientY = e.rect.top) => stored = Origin
            /\ (/\ e.clientX - e.rect.left \in 0..e.rect.width
                /\ e.clientY - e.rect.top \in 0..e.rect.height) =>
                   /\ stored.x \in 0..(canvas.width * Unit)
                   /\ stored.y \in 0..(canvas.height * Unit)

\* a pointer-down away from the corner on a canvas shown with unequal ratios
C12_Witness ==
    /\ last.handler = "mousedown"
    /\ canvas.width * last.event.rect.height # canvas.height * last.event.rect.width
    /\ startPos.x > 0
    /\ startPos.y > 0
    /\ startPos.x # startPos.y

\* C14: a pointer-down at native point p leaves startPos = endPos = p and
\* isSelecting = TRUE, whether or not a drag was under way and whatever the
\* selection was before.
C14_PointerDown ==
    [][last'.handler = "mousedown" =>
          /\ startPos' = GetMousePos(last'.event, canvas)
          /\ endPos' = startPos'
          /\ isSelecting']_vars

\* a pointer-down taken during a drag has replaced a selection
C14_Witness ==
    /\ last.handler = "mousedown"
    /\ last.selecting
    /\ startPos = endPos
    /\ startPos # Origin

\* C15: a pointer-move during a drag changes endPos only; a pointer-up ends the drag
\* and changes neither corner; a pointer-move outside a drag changes nothing; outside
\* a drag the two corners change only by a pointer-down or a page change.
C15_MoveAndUp ==
    [][/\ (last'.handler = "mousemove" /\ isSelecting) =>
              /\ startPos' = startPos
              /\ isSelecting' = isSelecting
              /\ currentPage' = currentPage
              /\ UNCHANGED <<pdfPages, canvas, crops, completed, mounted>>
       /\ (last'.handler = "mousemove" /\ ~isSelecting) =>
              UNCHANGED <<startPos, endPos, isSelecting, currentPage, pdfPages, canvas,
                          draws, crops, completed, mounted>>
       /\ last'.handler = "mouseup" =>
              /\ ~isSelecting'
              /\ startPos' = startPos
              /\ endPos' = endPos
       /\ (~isSelecting /\ last'.handler \notin {"mousedown", "pagechange"}) =>
              /\ startPos' = startPos
              /\ endPos' = endPos]_vars

\* the pointer has moved after the drag ended and the rectangle is still there
C15_Witness ==
    /\ last.handler = "mousemove"
    /\ ~isSelecting
    /\ ~ConfirmDisabled
    /\ NativePoint(last.event, canvas) # endPos

C17_ExactRectangle ==
    /\ (last.handler = "confirm" /\ ~last.alert) =>
          /\ [page |-> currentPage,
              x |-> Min(startPos.x, endPos.x), y |-> Min(startPos.y, endPos.y),
              width |-> Abs(endPos.x - startPos.x),
              height |-> Abs(endPos.y - startPos.y)] \in crops
          /\ Selection(startPos, endPos) = Selection(endPos, startPos)
    /\ \A c \in crops :
          /\ c.width >= 0
          /\ c.height >= 0
          /\ InRaster(c.page, c.x, c.y, c.width, c.height)
    /\ \A k \in 1..Len(completed) :
          /\ completed[k].sw >= 0
          /\ completed[k].sh >= 0
          /\ InRaster(completed[k].page, completed[k].sx, completed[k].sy,
                      completed[k].sw, completed[k].sh)

\* ------------------------------------------------------------------ export
Ids(qs) == [k \in 1..Len(qs) |-> qs[k].id]

\* out lists, in the order of list and once each, the ids of its selected questions
IsSelection(out, list) ==
    /\ Range(out) = {list[k].id : k \in {n \in 1..Len(list) : list[n].isSelected}}
    /\ \A a \in 1..Len(out) : \A b \in 1..Len(out) :
           a < b => \E m \in 1..Len(list) : \E n \in 1..Len(list) :
                        m < n /\ list[m].id = out[a] /\ list[n].id = out[b]

NoUploadFailed == \A t \in DOMAIN uploads : uploads[t] # "failed"

\* C13: while no upload of the T data-URL images of the exported questions has
\* failed, the k-th call of onProgress has current = k and total = T and one call is
\* made for each upload that has completed, so that when all uploads have succeeded
\* there have been exactly T calls with current = 1..T, in whatever order the uploads
\* completed.
C13_Progress ==
    LET T == TotalImages(selectedQuestions)
    IN  (attempts > 0 /\ NoUploadFailed) =>
            /\ Len(progress) = Cardinality({t \in DOMAIN uploads : uploads[t] = "done"})
            /\ \A k \in 1..Len(progress) :
                   /\ progress[k].current = k
                   /\ progress[k].total = T
            /\ epc \in {"posting", "zipping", "downloaded", "done"} => Len(progress) = T

\* the second call of four is made while the upload started first is still in
\* flight: the uploads of the second question have ended before it
C13_Witness ==
    /\ epc = "uploading"
    /\ TotalImages(selectedQuestions) = 4
    /\ progress = <<[current |-> 1, total |-> 4], [current |-> 2, total |-> 4]>>
    /\ uploads[<<1, 0>>] = "inflight"
    /\ uploads[<<2, 1>>] = "done"
    /\ uploads[<<2, 2>>] = "done"

\* C19: the questions of an export are those of the review list that had isSelected
\* true when the export was started, in list order: this holds of the list handed to
\* the uploads, of the images uploaded, of the body posted to the ingestion server and
\* of both manifests of the archive, whatever the reviewer toggled, edited or deleted
\* before and after; and no export is started with nothing selected.
C19_ExportMembership ==
    attempts > 0 =>
        /\ IsSelection(Ids(selectedQuestions), startList)
        /\ selectedQuestions # << >>
        /\ \A t \in DOMAIN uploads :
               /\ t[1] \in 1..Len(selectedQuestions)
               /\ selectedQuestions[t[1]].isSelected
        /\ posted.made => Ids(posted.body) = Ids(selectedQuestions)
        /\ archive.built =>
               /\ Ids(archive.questions) = Ids(selectedQuestions)
               /\ Ids(archive.firebase) = Ids(selectedQuestions)

\* of three questions the second was deleted and the first unselected before the
\* export, and the list was changed again while the export ran
C19_Witness ==
    /\ archive.downloaded
    /\ Ids(startList) = <<1, 3>>
    /\ Ids(selectedQuestions) = <<3>>
    /\ startList[2].edited
    /\ questions # startList

\* C20: once an upload of an export has failed, no request has been made to the
\* ingestion server, no archive has been built or downloaded, the error is set,
\* isProcessing is false and the step is REVIEW; the failure itself leaves the review
\* list as it was.
C20_UploadFailureAborts ==
    /\ [](~NoUploadFailed =>
              /\ epc = "failed"
              /\ ~posted.made
              /\ ~archive.built
              /\ ~archive.downloaded
              /\ error # "null"
              /\ ~isProcessing
              /\ currentStep = "REVIEW")
    /\ [][(\E t \in DOMAIN uploads \cap DOMAIN uploads' :
              uploads[t] # "failed" /\ uploads'[t] = "failed") =>
             questions' = questions]_vars

\* an upload failed after another had succeeded and while a third was in flight
C20_Witness ==
    /\ epc = "failed"
    /\ \E t \in DOMAIN uploads : uploads[t] = "failed"
    /\ \E t \in DOMAIN uploads : uploads[t] = "done"
    /\ \E t \in DOMAIN uploads : uploads[t] = "inflight"
    /\ Len(progress) = 1

\* ------------------------------------------------------- fields set by the client
SetByClient(q) == q.isSelected = TRUE /\ q.isValid = TRUE /\ q.source = SourceName

\* C18: every question the reconciler has accepted, every question of the window
\* being merged and every question returned, by the page client and by the text-only
\* client, has isSelected = TRUE, isValid = TRUE and the caller's document name as
\* source, also when the oracle's record came with other values for these fields.
C18_SetByClient ==
    /\ \A k \in 1..Len(allQuestions) : SetByClient(allQuestions[k])
    /\ \A k \in 1..Len(pending) : SetByClient(pending[k])
    /\ result.state = "resolved" =>
           \A k \in 1..Len(result.value) : SetByClient(result.value[k])

\* the record that came with isSelected = FALSE and a source of its own was accepted
C18_Witness ==
    /\ pc = "done"
    /\ ~input.isString
    /\ \E k \in 1..Len(result.value) :
           /\ result.value[k].text = TextRetold
           /\ CandRetold.isSelected = FALSE
           /\ CandRetold.source # SourceName
           /\ result.value[k].isSelected

\* C21: when the request to the ingestion server fails after the uploads have
\* succeeded, the export goes on as after a success: the failing step sets no error
\* and leaves isProcessing true, the archive is built and downloaded next, the run
\* ends in COMPLETE with isProcessing false, and the only failure that can still end
\* it is that of the archive itself.
C21_MongoWarningOnly ==
    /\ [](mongo = "warned" =>
              /\ posted.made
              /\ AllDone(uploads)
              /\ epc \in {"zipping", "downloaded", "done", "failed"}
              /\ epc \in {"zipping", "downloaded"} =>
                     isProcessing /\ currentStep = "REVIEW"
              /\ epc \in {"downloaded", "done"} =>
                     /\ archive.built
                     /\ archive.downloaded
                     /\ archive.firebase = posted.body
              /\ epc = "done" => currentStep = "COMPLETE" /\ ~isProcessing
              /\ epc = "failed" => error = "Failed to create export package.")
    /\ [][(mongo # "warned" /\ mongo' = "warned") =>
              /\ epc' = "zipping"
              /\ error' = error
              /\ isProcessing'
              /\ currentStep' = currentStep]_vars

\* the request failed after two uploads, and the run has reached COMPLETE
C21_Witness ==
    /\ mongo = "warned"
    /\ epc = "done"
    /\ currentStep = "COMPLETE"
    /\ ~isProcessing
    /\ archive.downloaded
    /\ Len(progress) = 2

\* C22: without the credential the call rejects at its first statement, for a string
\* given to the page client, for the text-only client and for a page array of any
\* length: no request is ever made to the oracle, none is in flight, no window is
\* submitted, failed or merged, and the only step of the call is the rejection.
C22_NoCredentialNoCall ==
    ~apiKey =>
        /\ pc \in {"start", "rejected"}
        /\ submitted = << >>
        /\ inFlight = 0
        /\ failed = {}
        /\ parts = << >>
        /\ allQuestions = << >>
        /\ pc = "rejected" => result = Rejected
        /\ pc = "start" => result = NoResult

\* the call has rejected for an array of two pages or more
C22_Witness ==
    /\ ~apiKey
    /\ pc = "rejected"
    /\ result = Rejected
    /\ ~input.isString
    /\ Len(input.pages) >= WINDOW_SIZE

\* ------------------------------------------------------------------ defaults
\* the record of the oracle a returned question was made from
OracleRecord(x) == CHOOSE c \in Cands : c.text = x.text

\* the questions of the call: accepted, being merged, returned
QuestionsOfCall ==
    Range(allQuestions) \cup Range(pending)
        \cup (IF result.state = "resolved" THEN Range(result.value) ELSE {})

\* C23: every question of the call keeps the board and the standard its oracle record
\* came with; a record without board becomes "JEE", and a record without standard
\* becomes the one value that both the text-only client and the page client put
\* in its place.
C23_SameDefaults ==
    \A x \in QuestionsOfCall :
        LET c == OracleRecord(x)
        IN  /\ x.board = (IF "board" \in DOMAIN c THEN c.board ELSE "JEE")
            /\ "standard" \in DOMAIN c => x.standard = c.standard
            /\ "standard" \notin DOMAIN c =>
                   /\ x.standard = TextOnlyQuestion(c, SourceName).standard
                   /\ x.standard = ProcessQuestion(c, <<TextPart>>, SourceName).standard

\* ------------------------------------------------------------ first pages
\* the submitted windows that begin with page k
WindowsFrom(k) == {n \in 1..Len(submitted) : submitted[n] # << >> /\ submitted[n][1] = k}

\* as first stated: every page 1..N is the first page of exactly one window
C24_EveryPageFirst ==
    (pc = "done" /\ ~input.isString) =>
        \A k \in 1..NPages : Cardinality(WindowsFrom(k)) = 1

\* C24: the iteration stops after the first window that reaches the last page
\* (i + 2 >= N), so a window of the one remaining page is submitted only when the
\* document has one page: when the call has returned, every page 1..N-1 is the first
\* page of exactly one window, page N is the first page of a window only for N = 1,
\* every window but that one has two pages, and every page is in some window.
C24_FirstPages ==
    (pc = "done" /\ ~input.isString) =>
        /\ \A k \in 1..(NPages - 1) : Cardinality(WindowsFrom(k)) = 1
        /\ Cardinality(WindowsFrom(NPages)) = (IF NPages = 1 THEN 1 ELSE 0)
        /\ \A n \in 1..Len(submitted) :
               Len(submitted[n]) = (IF NPages = 1 THEN 1 ELSE WINDOW_SIZE)
        /\ \A k \in 1..NPages :
               \E n \in 1..Len(submitted) : k \in Range(submitted[n])

\* three pages: the call has returned after the windows [1,2] and [2,3], and no
\* window began with page 3
C24_Witness ==
    /\ pc = "done"
    /\ NPages = 3
    /\ submitted = << <<1, 2>>, <<2, 3>> >>
    /\ WindowsFrom(3) = {}

\* ------------------------------------------------- progress after a failure
\* C28: once an upload of an export has failed the progress callback is not called
\* again in that export, whatever becomes of the uploads that were still in flight.
C28_NoProgressAfterFailure ==
    [][(~NoUploadFailed /\ attempts' = attempts) => progress' = progress]_vars

\* ---------------------------------------------------------- log listeners
\* C29: when a call of log has gone through the listeners, every listener that was
\* registered when the call started and has not been unsubscribed since has been
\* called with the entry exactly once, in the order of registration; and no listener
\* whose unsubscribe function has returned is still registered for a later call.
C29_ListenersCalled ==
    /\ (logs > 0 /\ dispatch.idx >= dispatch.len) =>
           SelectSeq(dispatch.called, LAMBDA f : f \notin unsubscribed)
               = SelectSeq(dispatch.atStart, LAMBDA f : f \notin unsubscribed)
    /\ \A k \in 1..Len(listeners) : listeners[k] \notin unsubscribed

\* ------------------------------------------------------- the crop delivered
\* the step is the onload of the confirmed crop c
Delivers(c) == c \in decodes /\ c \notin decodes'

\* the list after the step is the list before it with the crop in the field c names
OnlyRequestedField(c) ==
    /\ c.index \in 1..Len(questions)
    /\ questions' =
           [questions EXCEPT ![c.index] =
               IF c.optIndex = 0
               THEN [questions[c.index] EXCEPT !.image = "data"]
               ELSE [questions[c.index] EXCEPT !.options =
                        [questions[c.index].options EXCEPT ![c.optIndex] = "data"]]]

\* C25: the onload of a confirmed crop puts the crop into the field that requested it,
\* the diagram of question k or of its option j, and leaves every other question,
\* option and field of the review list as it was just before; after it the dialog is
\* closed and no continuation is stored.
C25_DeliveredToRequester ==
    [][\A c \in decodes :
           Delivers(c) =>
               /\ OnlyRequestedField(c)
               /\ ~showCropModal'
               /\ cropCallback' = NoCallback]_vars

\* C26: on the review list hasImage is true exactly when the question has an image.
C26_HasImageIffImage ==
    \A k \in 1..Len(questions) : questions[k].hasImage <=> questions[k].image # "null"

\* C27: the onload of a crop confirmed in a dialog that the reviewer has closed since
\* leaves the review list as it is.
C27_NoDeliveryAfterClose ==
    [][\A c \in decodes :
           (Delivers(c) /\ c.request \in cancelled) => questions' = questions]_vars

\* -------------------------------------------------------------- the steps
\* the changes of step along UPLOAD -> EXTRACT -> REVIEW -> COMPLETE -> UPLOAD
StepChain ==
    {<<"UPLOAD", "EXTRACT">>, <<"EXTRACT", "REVIEW">>, <<"REVIEW", "COMPLETE">>,
     <<"COMPLETE", "UPLOAD">>}

\* C30: every change of the step is one of UPLOAD -> EXTRACT, EXTRACT -> REVIEW,
\* REVIEW -> COMPLETE and COMPLETE -> UPLOAD, and a step that sets the error (a failed
\* extraction, oracle call or export) leaves the step as it is.
C30_StepsInOrder ==
    [][/\ currentStep' # currentStep => <<currentStep, currentStep'>> \in StepChain
       /\ (error' # error /\ error' # "null") => currentStep' = currentStep]_vars

====
